---- MODULE Spec2Model ----
(***************************************************************************)
(* State machine of the CharacterModal component                           *)
(* (src/frontend/src/components/CharacterModal.jsx).                       *)
(*                                                                         *)
(* The variables are the component's props and useState cells; every       *)
(* action is one event handler, run to completion (React flushes a         *)
(* discrete event and re-renders before the next one is delivered).        *)
(*                                                                         *)
(* Next is every event the rendered markup can deliver.  The equipment     *)
(* events (and the level and rarity selects) neither read nor write the    *)
(* technique cells, and the technique events neither read nor write the    *)
(* equipment, level and rarity cells; navigateCharacter is the one handler *)
(* that touches both sides.  The product of the two sides is too large to  *)
(* enumerate, so the properties are checked under the specifications of    *)
(* each side, every one of which includes navigation:                      *)
(*   SpecTechnique  navigation and the technique events;                   *)
(*   SpecEquipment  navigation, the equipment events, level and rarity;    *)
(*   SpecHandlers   SpecTechnique plus direct calls of the technique       *)
(*                  handlers with arguments the markup never passes;       *)
(*   SpecPickers    every event that reads or writes a picker cell         *)
(*                  (showEquipmentList, selectedCategory,                  *)
(*                  showHissatsuList, hissatsuSlotIndex) or the length of  *)
(*                  the technique list, both pickers interleaved; picks    *)
(*                  take the first item offered, and navigation, level     *)
(*                  and rarity, which touch none of these, are left out.   *)
(***************************************************************************)
EXTENDS Integers, Sequences, FiniteSets

\* ------------------------------------------------------------------ bounds

\* Number of characters in the allCharacters prop.
NumCharacters == 3
\* Number of entries of the mockHissatsu catalog.
NumHissatsu == 2
\* Number of boots in mockEquipment (every other category offers one item).
NumBoots == 2
\* Number of level options sampled from the 99 the level Select offers.
LevelSamples == 2
\* Largest index a direct call of a technique handler is given (NextHandlers).
MaxCallIndex == 4

\* ------------------------------------------------------- program constants

\* Capacity test of handleAddHissatsu and of the Add button.
MaxHissatsu == 4
\* The level Select renders Array.from({length: 99}, (_, i) => i + 1).
MaxLevel == 99
\* The level navigateCharacter sets.
ResetLevel == 99

\* JavaScript values that are not items.
null == 0
nullIndex == -1
hole == 0
undefined == -1
nullCategory == "<null>"

\* The keys of the initial selectedEquipment object.
Categories == {"boots", "bracelet", "pendant", "special"}
\* The items of the rarity Select, in the order of the markup.
Rarities == <<"Common", "Rare", "Epic", "Legendary">>
RarityOptions == {Rarities[k] : k \in 1..Len(Rarities)}
\* The rarity navigateCharacter sets.
ResetRarity == "Legendary"

\* ------------------------------------------------------- external data

\* mockHissatsu: the technique catalog (items are named by their id).
mockHissatsu == 1..NumHissatsu

\* mockEquipment[category]: the items offered for a category.
\* Item k of category number r has the id 10 * r + k.
CategoryRank(c) ==
  CASE c = "boots" -> 1 [] c = "bracelet" -> 2 [] c = "pendant" -> 3
    [] c = "special" -> 4
mockEquipment(c) ==
  IF c \notin Categories THEN {}
  ELSE {10 * CategoryRank(c) + k : k \in 1..(IF c = "boots" THEN NumBoots ELSE 1)}
AllEquipment == UNION {mockEquipment(c) : c \in Categories}

\* Character data: id, baseLevel, baseRarity and the character's own
\* technique list (0 to 4 entries of the catalog).
CharacterData(k) ==
  [id |-> k,
   baseLevel |-> 1 + ((k * 49) % MaxLevel),
   baseRarity |-> Rarities[(k % Len(Rarities)) + 1],
   hissatsu |-> [j \in 1..((2 * k) % (MaxHissatsu + 1)) |-> ((j + k) % NumHissatsu) + 1]]

\* The allCharacters prop; JavaScript index i is allCharacters[i + 1].
allCharacters == [k \in 1..NumCharacters |-> CharacterData(k - 1)]
\* The characters the component may be opened with: those of the list and
\* one that is not in it.
Openable == {CharacterData(k) : k \in 0..NumCharacters}

\* ------------------------------------------------------------------ state

VARIABLES
  currentCharacterIndex,
  userLevel,
  userRarity,
  selectedEquipment,     \* object: property key -> item or null
  selectedHissatsu,      \* array: entries are items, holes or undefined
  showEquipmentList,
  showHissatsuList,
  selectedCategory,
  hissatsuSlotIndex,
  lastEvent,             \* history: name of the handler that ran last
  lastArg,               \* history: its index or item argument (a number)
  lastText,              \* history: its direction, category or rarity argument
  before,                \* history: the cells as they were when it was called
  slotSource,            \* history: handler that set hissatsuSlotIndex
  raised                 \* history: error thrown by the handler that ran last

vars == <<currentCharacterIndex, userLevel, userRarity,
          selectedEquipment, selectedHissatsu, showEquipmentList,
          showHissatsuList, selectedCategory, hissatsuSlotIndex,
          lastEvent, lastArg, lastText, before, slotSource,
          raised>>

\* The component's cells, as one record (with who chose the slot index).
Cells ==
  [slotSource |-> slotSource,
   currentCharacterIndex |-> currentCharacterIndex,
   userLevel |-> userLevel,
   userRarity |-> userRarity,
   selectedEquipment |-> selectedEquipment,
   selectedHissatsu |-> selectedHissatsu,
   showEquipmentList |-> showEquipmentList,
   showHissatsuList |-> showHissatsuList,
   selectedCategory |-> selectedCategory,
   hissatsuSlotIndex |-> hissatsuSlotIndex]

\* Handler `name` runs with argument `number` or `text` (undefined, "none"
\* when it has no such argument) and returns normally: no handler of the
\* component has a throw statement or a call that can throw.
Returns(name, number, text) ==
  /\ lastEvent' = name
  /\ lastArg' = number
  /\ lastText' = text
  /\ before' = Cells
  /\ raised' = "none"

\* ------------------------------------------------- JavaScript semantics

\* Array.prototype.findIndex(c => c.id === id): first match, else -1.
findIndex(chars, id) ==
  IF \E k \in 1..Len(chars) : chars[k].id = id
  THEN (CHOOSE k \in 1..Len(chars) :
          chars[k].id = id /\ \A j \in 1..(k - 1) : chars[j].id # id) - 1
  ELSE -1

\* Number.prototype.toString() of a non-negative integer: its decimal digits.
RECURSIVE toString(_)
toString(n) == IF n < 10 THEN <<n>> ELSE Append(toString(n \div 10), n % 10)

\* parseInt of a string of decimal digits.
RECURSIVE parseInt(_)
parseInt(s) ==
  IF Len(s) = 0 THEN 0
  ELSE 10 * parseInt(SubSeq(s, 1, Len(s) - 1)) + s[Len(s)]

\* a % n for n > 0: the remainder takes the sign of the dividend.
JsRem(a, n) == IF a >= 0 THEN a % n ELSE -((-a) % n)

\* [...array]: the iterator yields undefined for a hole.
Spread(arr) == [k \in 1..Len(arr) |-> IF arr[k] = hole THEN undefined ELSE arr[k]]

\* Mutant of SetIndex: the value is pushed instead of written at the index.
SetIndex_Push(arr, index, value) == arr \o <<value>>

\* array[index] = value for index >= 0: a write at or past the length
\* extends the array and leaves holes between the old end and the index.
SetIndex(arr, index, value) ==
  IF index < Len(arr) THEN [arr EXCEPT ![index + 1] = value]
  ELSE arr \o [k \in 1..(index - Len(arr)) |-> hole] \o <<value>>

\* Mutant of Splice: splice(start) without the delete count removes
\* everything from start on.
Splice_ToEnd(arr, start) ==
  SubSeq(arr, 1, IF start < 0
                 THEN (IF Len(arr) + start > 0 THEN Len(arr) + start ELSE 0)
                 ELSE (IF start < Len(arr) THEN start ELSE Len(arr)))

\* array.splice(start, 1): a negative start counts from the end, a start
\* past the end deletes nothing.
Splice(arr, start) ==
  LET len == Len(arr)
      from == IF start < 0
              THEN (IF len + start > 0 THEN len + start ELSE 0)
              ELSE (IF start < len THEN start ELSE len)
      count == IF len - from < 1 THEN len - from ELSE 1
  IN  SubSeq(arr, 1, from) \o SubSeq(arr, from + count + 1, len)

\* Mutant of PropertyKey: the key is read after setSelectedCategory(null).
PropertyKey_AfterClear(c) == "null"

\* Mutant of SpreadSet: the object is built without ...prev.
SpreadSet_NoSpread(obj, key, value) == [k \in {key} |-> value]

\* {...prev, [key]: value}: the key is converted to a property name.
PropertyKey(c) == IF c = nullCategory THEN "null" ELSE c
SpreadSet(obj, key, value) ==
  [k \in (DOMAIN obj) \cup {key} |-> IF k = key THEN value ELSE obj[k]]

\* ------------------------------------------------------------------ Init

EmptyEquipment == [c \in Categories |-> null]

InitFor(character) ==
  /\ currentCharacterIndex = findIndex(allCharacters, character.id)
  /\ userLevel = character.baseLevel
  /\ userRarity = character.baseRarity
  /\ selectedEquipment = EmptyEquipment
  /\ selectedHissatsu = character.hissatsu
  /\ showEquipmentList = FALSE
  /\ showHissatsuList = FALSE
  /\ selectedCategory = nullCategory
  /\ hissatsuSlotIndex = nullIndex
  /\ lastEvent = "mount"
  /\ lastArg = undefined
  /\ lastText = "none"
  /\ before = <<>>
  /\ slotSource = "none"
  /\ raised = "none"

\* The component is mounted with its character prop.
Init == \E character \in Openable : InitFor(character)

\* ------------------------------------------------------------- rendering

\* const currentCharacter = allCharacters[currentCharacterIndex]
HasCurrentCharacter ==
  currentCharacterIndex >= 0 /\ currentCharacterIndex < Len(allCharacters)

\* The component renders something that can deliver events: line 197
\* returns null without a current character, and the technique panel reads
\* technique.icon of every entry selectedHissatsu.map visits (map skips
\* holes, an undefined entry throws and React unmounts the component).
Renders ==
  /\ HasCurrentCharacter
  /\ \A k \in 1..Len(selectedHissatsu) : selectedHissatsu[k] # undefined

\* The indexes selectedHissatsu.map renders change/remove buttons for.
RenderedTechniqueIndexes ==
  {i \in 0..(Len(selectedHissatsu) - 1) : selectedHissatsu[i + 1] # hole}

\* The Add button's disabled attribute.
AddDisabled == Len(selectedHissatsu) >= MaxHissatsu

\* showEquipmentList && selectedCategory
EquipmentListRendered == showEquipmentList /\ selectedCategory # nullCategory

\* Mutant of LevelOptions: the options count from 0 (i instead of i + 1).
LevelOptions_FromZero ==
  {toString((k * (MaxLevel - 1)) \div (LevelSamples - 1)) : k \in 0..(LevelSamples - 1)}

\* The level options of the Select (sampled): 1 and 99 are always among them.
LevelOptions ==
  {toString(1 + ((k * (MaxLevel - 1)) \div (LevelSamples - 1))) : k \in 0..(LevelSamples - 1)}

\* ---------------------------------------------------------------- handlers
\* Each handler is its body alone; what may call it is said by Next and
\* NextHandlers.

\* Mutant of NewIndex: 'prev' without the + allCharacters.length.
NewIndex_NoWrap(direction, index) ==
  IF direction = "next"
  THEN JsRem(index + 1, Len(allCharacters))
  ELSE JsRem(index - 1, Len(allCharacters))

\* const newIndex = direction === 'next' ? ... : ...
NewIndex(direction, index) ==
  IF direction = "next"
  THEN JsRem(index + 1, Len(allCharacters))
  ELSE JsRem(index - 1 + Len(allCharacters), Len(allCharacters))

navigateCharacter(direction) ==
  /\ currentCharacterIndex' = NewIndex(direction, currentCharacterIndex)
  /\ userLevel' = ResetLevel
  /\ userRarity' = ResetRarity
  /\ selectedEquipment' = EmptyEquipment
  /\ Returns("navigateCharacter", undefined, direction)
  /\ UNCHANGED <<selectedHissatsu, showEquipmentList,
                 showHissatsuList, selectedCategory, hissatsuSlotIndex,
                 slotSource>>

handleEquipmentSelect(equipment) ==
  /\ selectedEquipment' =
       SpreadSet(selectedEquipment, PropertyKey(selectedCategory), equipment)
  /\ showEquipmentList' = FALSE
  /\ selectedCategory' = nullCategory
  /\ Returns("handleEquipmentSelect", equipment, "none")
  /\ UNCHANGED <<currentCharacterIndex, userLevel, userRarity,
                 selectedHissatsu, showHissatsuList, hissatsuSlotIndex,
                 slotSource>>

\* Mutant of handleHissatsuSelect: setShowHissatsuList(false) is missing.
handleHissatsuSelect_KeepsOpen(hissatsu) ==
  /\ IF hissatsuSlotIndex # nullIndex
     THEN /\ selectedHissatsu' =
               SetIndex(Spread(selectedHissatsu), hissatsuSlotIndex, hissatsu)
          /\ hissatsuSlotIndex' = nullIndex
          /\ slotSource' = "none"
          /\ UNCHANGED showHissatsuList
     ELSE UNCHANGED <<selectedHissatsu, showHissatsuList, hissatsuSlotIndex,
                      slotSource>>
  /\ Returns("handleHissatsuSelect", hissatsu, "none")
  /\ UNCHANGED <<currentCharacterIndex, userLevel, userRarity,
                 selectedEquipment, showEquipmentList, selectedCategory>>

handleHissatsuSelect(hissatsu) ==
  /\ IF hissatsuSlotIndex # nullIndex
     THEN /\ selectedHissatsu' =
               SetIndex(Spread(selectedHissatsu), hissatsuSlotIndex, hissatsu)
          /\ showHissatsuList' = FALSE
          /\ hissatsuSlotIndex' = nullIndex
          /\ slotSource' = "none"
     ELSE UNCHANGED <<selectedHissatsu, showHissatsuList, hissatsuSlotIndex,
                      slotSource>>
  /\ Returns("handleHissatsuSelect", hissatsu, "none")
  /\ UNCHANGED <<currentCharacterIndex, userLevel, userRarity,
                 selectedEquipment, showEquipmentList, selectedCategory>>

handleRemoveHissatsu(index) ==
  /\ selectedHissatsu' = Splice(Spread(selectedHissatsu), index)
  /\ Returns("handleRemoveHissatsu", index, "none")
  /\ UNCHANGED <<currentCharacterIndex, userLevel, userRarity,
                 selectedEquipment, showEquipmentList, showHissatsuList,
                 selectedCategory, hissatsuSlotIndex, slotSource>>

\* Mutant of handleAddHissatsu: the capacity test is <= instead of <.
handleAddHissatsu_OffByOne ==
  /\ IF Len(selectedHissatsu) <= MaxHissatsu
     THEN /\ hissatsuSlotIndex' = Len(selectedHissatsu)
          /\ showHissatsuList' = TRUE
          /\ slotSource' = "add"
     ELSE UNCHANGED <<hissatsuSlotIndex, showHissatsuList, slotSource>>
  /\ Returns("handleAddHissatsu", undefined, "none")
  /\ UNCHANGED <<currentCharacterIndex, userLevel, userRarity,
                 selectedEquipment, selectedHissatsu, showEquipmentList,
                 selectedCategory>>

handleAddHissatsu ==
  /\ IF Len(selectedHissatsu) < MaxHissatsu
     THEN /\ hissatsuSlotIndex' = Len(selectedHissatsu)
          /\ showHissatsuList' = TRUE
          /\ slotSource' = "add"
     ELSE UNCHANGED <<hissatsuSlotIndex, showHissatsuList, slotSource>>
  /\ Returns("handleAddHissatsu", undefined, "none")
  /\ UNCHANGED <<currentCharacterIndex, userLevel, userRarity,
                 selectedEquipment, selectedHissatsu, showEquipmentList,
                 selectedCategory>>

handleChangeHissatsu(index) ==
  /\ hissatsuSlotIndex' = index
  /\ showHissatsuList' = TRUE
  /\ slotSource' = "change"
  /\ Returns("handleChangeHissatsu", index, "none")
  /\ UNCHANGED <<currentCharacterIndex, userLevel, userRarity,
                 selectedEquipment, selectedHissatsu, showEquipmentList,
                 selectedCategory>>

\* onValueChange of the level Select: setUserLevel(parseInt(value)).
onLevelChange(value) ==
  /\ userLevel' = parseInt(value)
  /\ Returns("onLevelChange", parseInt(value), "none")
  /\ UNCHANGED <<currentCharacterIndex, userRarity,
                 selectedEquipment, selectedHissatsu, showEquipmentList,
                 showHissatsuList, selectedCategory, hissatsuSlotIndex,
                 slotSource>>

\* onValueChange of the rarity Select: setUserRarity.
setUserRarity(value) ==
  /\ userRarity' = value
  /\ Returns("setUserRarity", undefined, value)
  /\ UNCHANGED <<currentCharacterIndex, userLevel,
                 selectedEquipment, selectedHissatsu, showEquipmentList,
                 showHissatsuList, selectedCategory, hissatsuSlotIndex,
                 slotSource>>

\* onClick of an equipment slot.
onSlotClick(category) ==
  /\ selectedCategory' = category
  /\ showEquipmentList' = TRUE
  /\ Returns("onSlotClick", undefined, category)
  /\ UNCHANGED <<currentCharacterIndex, userLevel, userRarity,
                 selectedEquipment, selectedHissatsu, showHissatsuList,
                 hissatsuSlotIndex, slotSource>>

\* onClick of the equipment picker's X button.
closeEquipmentList ==
  /\ showEquipmentList' = FALSE
  /\ Returns("closeEquipmentList", undefined, "none")
  /\ UNCHANGED <<currentCharacterIndex, userLevel, userRarity,
                 selectedEquipment, selectedHissatsu, showHissatsuList,
                 selectedCategory, hissatsuSlotIndex, slotSource>>

\* onClick of the technique picker's X button.
closeHissatsuList ==
  /\ showHissatsuList' = FALSE
  /\ Returns("closeHissatsuList", undefined, "none")
  /\ UNCHANGED <<currentCharacterIndex, userLevel, userRarity,
                 selectedEquipment, selectedHissatsu, showEquipmentList,
                 selectedCategory, hissatsuSlotIndex, slotSource>>

\* ------------------------------------------------ events of the markup

ClickNavigate == Renders /\ \E d \in {"prev", "next"} : navigateCharacter(d)

SelectLevel == Renders /\ \E v \in LevelOptions : onLevelChange(v)

SelectRarity == Renders /\ \E r \in RarityOptions : setUserRarity(r)

ClickSlot == Renders /\ \E c \in DOMAIN selectedEquipment : onSlotClick(c)

ClickEquipment ==
  /\ Renders
  /\ EquipmentListRendered
  /\ \E e \in mockEquipment(selectedCategory) : handleEquipmentSelect(e)

ClickCloseEquipment == Renders /\ EquipmentListRendered /\ closeEquipmentList

ClickAdd == Renders /\ ~AddDisabled /\ handleAddHissatsu

ClickChange ==
  Renders /\ \E i \in RenderedTechniqueIndexes : handleChangeHissatsu(i)

ClickRemove ==
  Renders /\ \E i \in RenderedTechniqueIndexes : handleRemoveHissatsu(i)

ClickHissatsu ==
  Renders /\ showHissatsuList /\ \E h \in mockHissatsu : handleHissatsuSelect(h)

ClickCloseHissatsu == Renders /\ showHissatsuList /\ closeHissatsuList

\* ------------------------------------------------------- direct calls
\* The technique handlers called as functions, with arguments and in states
\* the markup never calls them with: Add at capacity (the button is
\* disabled), Remove with an index that is not rendered, Select while the
\* picker is closed.

CallIndexes == (-MaxCallIndex)..MaxCallIndex

CallAddHissatsu == handleAddHissatsu

CallRemoveHissatsu == \E i \in CallIndexes : handleRemoveHissatsu(i)

CallHissatsuSelect == \E h \in mockHissatsu : handleHissatsuSelect(h)

\* ------------------------------------------------------- sampled picks
\* A pick of the first item the open picker offers.

First(S) == CHOOSE x \in S : \A y \in S : x <= y

PickFirstEquipment ==
  /\ Renders
  /\ EquipmentListRendered
  /\ handleEquipmentSelect(First(mockEquipment(selectedCategory)))

PickFirstHissatsu ==
  Renders /\ showHissatsuList /\ handleHissatsuSelect(First(mockHissatsu))

\* --------------------------------------------------------- specifications

NextTechnique ==
  \/ ClickNavigate
  \/ ClickAdd
  \/ ClickChange
  \/ ClickRemove
  \/ ClickHissatsu
  \/ ClickCloseHissatsu

NextEquipment ==
  \/ ClickNavigate
  \/ SelectLevel
  \/ SelectRarity
  \/ ClickSlot
  \/ ClickEquipment
  \/ ClickCloseEquipment

NextHandlers ==
  \/ NextTechnique
  \/ CallAddHissatsu
  \/ CallRemoveHissatsu
  \/ CallHissatsuSelect

NextPickers ==
  \/ ClickSlot
  \/ PickFirstEquipment
  \/ ClickCloseEquipment
  \/ ClickAdd
  \/ ClickChange
  \/ ClickRemove
  \/ PickFirstHissatsu
  \/ ClickCloseHissatsu

Next == NextTechnique \/ NextEquipment

Spec == Init /\ [][Next]_vars
SpecTechnique == Init /\ [][NextTechnique]_vars
SpecEquipment == Init /\ [][NextEquipment]_vars
SpecHandlers == Init /\ [][NextHandlers]_vars
SpecPickers == Init /\ [][NextPickers]_vars

\* ------------------------------------------------------------ properties
\* `before` holds the cells at the call of the handler named by lastEvent,
\* so "immediately after handler h" is the state predicate lastEvent = h.

\* array[k] as JavaScript reads it: a hole reads as undefined.
Read(arr, k) == IF arr[k + 1] = hole THEN undefined ELSE arr[k + 1]

\* Two arrays of the same length whose entries read the same.
SameEntries(a, b) ==
  Len(a) = Len(b) /\ \A k \in 0..(Len(a) - 1) : Read(a, k) = Read(b, k)

\* `new` is `old` with exactly entry i deleted: entries before i keep their
\* index, entries after i move down by one.
DeletedAt(new, old, i) ==
  /\ Len(new) = Len(old) - 1
  /\ \A k \in 0..(Len(new) - 1) :
       Read(new, k) = IF k < i THEN Read(old, k) ELSE Read(old, k + 1)

\* C1: in the state immediately after navigateCharacter, all four equipment
\* slots are empty and the technique list is empty.
C1_NavigationResetsLoadout ==
  lastEvent = "navigateCharacter" =>
    /\ \A c \in Categories : selectedEquipment[c] = null
    /\ selectedHissatsu = <<>>

\* C2: the technique list holds between 0 and 4 entries in every reachable
\* state.
C2_TechniqueListAtMostFour ==
  Len(selectedHissatsu) >= 0 /\ Len(selectedHissatsu) <= 4

\* A pick has just filled the fourth slot.
C2_Witness ==
  /\ lastEvent = "handleHissatsuSelect"
  /\ Len(before.selectedHissatsu) = 3
  /\ Len(selectedHissatsu) = 4

\* C3: a pick for a slot index chosen by handleChangeHissatsu writes only if
\* the index is below the length at the moment of the write, and then
\* changes exactly that entry; otherwise it is rejected with
\* IndexOutOfRange and the technique list is unchanged.
C3_ReplaceIsIndexValidated ==
  (lastEvent = "handleHissatsuSelect" /\ before.slotSource = "change") =>
    LET old == before.selectedHissatsu
        i == before.hissatsuSlotIndex
    IN  IF 0 <= i /\ i < Len(old)
        THEN /\ Len(selectedHissatsu) = Len(old)
             /\ selectedHissatsu[i + 1] = lastArg
             /\ \A k \in 0..(Len(old) - 1) :
                  k # i => Read(selectedHissatsu, k) = Read(old, k)
        ELSE /\ selectedHissatsu = old
             /\ raised = "IndexOutOfRange"

\* The picked technique is appended when the slot index was chosen by
\* handleAddHissatsu below capacity and no entry was removed since:
\* it lands at index = previous length, earlier entries unchanged.
AddThenPickAppends ==
  (/\ lastEvent = "handleHissatsuSelect"
   /\ before.slotSource = "add"
   /\ before.hissatsuSlotIndex = Len(before.selectedHissatsu)) =>
    /\ Len(selectedHissatsu) = Len(before.selectedHissatsu) + 1
    /\ selectedHissatsu[Len(selectedHissatsu)] = lastArg
    /\ \A k \in 0..(Len(before.selectedHissatsu) - 1) :
         Read(selectedHissatsu, k) = Read(before.selectedHissatsu, k)

C6_EquipWritesOneSlot ==
  lastEvent = "handleEquipmentSelect" =>
    LET c == before.selectedCategory
    IN  /\ DOMAIN selectedEquipment = DOMAIN before.selectedEquipment
        /\ c \in DOMAIN selectedEquipment
        /\ selectedEquipment[c] = lastArg
        /\ \A k \in DOMAIN selectedEquipment :
             k # c => selectedEquipment[k] = before.selectedEquipment[k]
        /\ selectedHissatsu = before.selectedHissatsu
        /\ userLevel = before.userLevel
        /\ userRarity = before.userRarity
        /\ currentCharacterIndex = before.currentCharacterIndex

\* A second pair of boots has just replaced the first, with another slot
\* filled and a technique list to leave alone.
C6_Witness ==
  /\ lastEvent = "handleEquipmentSelect"
  /\ before.selectedEquipment["boots"] # null
  /\ selectedEquipment["boots"] # before.selectedEquipment["boots"]
  /\ selectedEquipment["boots"] = lastArg
  /\ selectedEquipment["pendant"] # null
  /\ selectedHissatsu # <<>>

\* C7: immediately after navigateCharacter, userLevel and userRarity are
\* the baseLevel and baseRarity of the character now current.
C7_NavigationRestoresBaseDefaults ==
  lastEvent = "navigateCharacter" =>
    /\ userLevel = allCharacters[currentCharacterIndex + 1].baseLevel
    /\ userRarity = allCharacters[currentCharacterIndex + 1].baseRarity

\* NewIndex applied `times` times.
RECURSIVE Navigated(_, _, _)
Navigated(direction, times, index) ==
  IF times = 0 THEN index
  ELSE Navigated(direction, times - 1, NewIndex(direction, index))

\* C8: with n characters and current index i, 'next' sets the index to
\* (i + 1) mod n and 'prev' to (i - 1 + n) mod n; n steps in one direction,
\* and 'next' followed by 'prev', return to the same character.
C8_NavigationCycles ==
  LET n == NumCharacters
      i == currentCharacterIndex
  IN  /\ lastEvent = "navigateCharacter" =>
           /\ lastText = "next" =>
                i = (before.currentCharacterIndex + 1) % n
           /\ lastText = "prev" =>
                i = (before.currentCharacterIndex - 1 + n) % n
           /\ i \in 0..(n - 1)
      /\ i \in 0..(n - 1) =>
           /\ Navigated("next", n, i) = i
           /\ Navigated("prev", n, i) = i
           /\ NewIndex("prev", NewIndex("next", i)) = i
           /\ NewIndex("next", NewIndex("prev", i)) = i

\* 'prev' has just wrapped around from the first character to the last.
C8_Witness ==
  /\ lastEvent = "navigateCharacter"
  /\ lastText = "prev"
  /\ before.currentCharacterIndex = 0
  /\ currentCharacterIndex = NumCharacters - 1

\* C9: the keys of selectedEquipment are exactly boots, bracelet, pendant
\* and special, and each slot is empty or holds one item.
C9_FourEquipmentSlots ==
  /\ DOMAIN selectedEquipment = {"boots", "bracelet", "pendant", "special"}
  /\ \A c \in DOMAIN selectedEquipment :
       selectedEquipment[c] = null \/ selectedEquipment[c] \in AllEquipment

\* A pick has just filled the last empty slot, after the picker had been
\* closed and opened again.
C9_Witness ==
  /\ lastEvent = "handleEquipmentSelect"
  /\ \E c \in DOMAIN selectedEquipment : before.selectedEquipment[c] = null
  /\ \A c \in {"boots", "bracelet", "pendant", "special"} :
       c \in DOMAIN selectedEquipment /\ selectedEquipment[c] # null

\* C10: userLevel is an integer in 1..99 in every reachable state.
C10_LevelInRange == userLevel \in 1..99

\* The lowest level has just been selected after a navigation.
C10_Witness ==
  /\ lastEvent = "onLevelChange"
  /\ before.userLevel = ResetLevel
  /\ userLevel = 1

\* C11: the technique list is dense in every reachable state: every entry
\* below the length is a technique item, never a hole or undefined.
C11_TechniqueListDense ==
  \A k \in 1..Len(selectedHissatsu) : selectedHissatsu[k] \in mockHissatsu

\* C12: a picker is only open with a valid target: showEquipmentList
\* implies selectedCategory is one of the four categories,
\* showHissatsuList implies hissatsuSlotIndex is a non-null integer in
\* 0..3, and after a successful pick the picker is closed and its target
\* is null again.
C12_PickerHasTarget ==
  /\ showEquipmentList =>
       selectedCategory \in {"boots", "bracelet", "pendant", "special"}
  /\ showHissatsuList =>
       hissatsuSlotIndex # nullIndex /\ hissatsuSlotIndex \in 0..3
  /\ lastEvent = "handleEquipmentSelect" =>
       ~showEquipmentList /\ selectedCategory = nullCategory
  /\ (lastEvent = "handleHissatsuSelect"
        /\ before.hissatsuSlotIndex # nullIndex) =>
       ~showHissatsuList /\ hissatsuSlotIndex = nullIndex

\* An equipment pick has just closed its picker while the technique picker
\* is open for the last slot.
C12_Witness ==
  /\ lastEvent = "handleEquipmentSelect"
  /\ before.showEquipmentList
  /\ before.selectedCategory = "special"
  /\ ~showEquipmentList
  /\ showHissatsuList
  /\ hissatsuSlotIndex = 3

====
